---- MODULE Spec2Model ----
(***************************************************************************)
(* A model of src/common_util.h of control-flag: the error taxonomy and    *)
(* the cf_assert guards, the ManagedTSTree owning pointer, the parser and  *)
(* collector entry points it declares, and the Timer.                      *)
(*                                                                         *)
(* A std::string is a TLA+ string where it is only concatenated (the       *)
(* exception messages) and a sequence of one-character strings where its   *)
(* characters matter (the output of Timer::TimerDiff).                     *)
(***************************************************************************)
EXTENDS Integers, Sequences, FiniteSets, TLC

(***************************************************************************)
(* Bounds of the model.                                                    *)
(***************************************************************************)
\* the clock reads seconds 0 .. MaxSec
MaxSec == 2

\* StartTimer and StopTimer are each called at most MaxTimerCalls times
MaxTimerCalls == 2

\* the three-argument guard is called at most MaxAssertCalls times
MaxAssertCalls == 3

\* the calling code has MaxHolders ManagedTSTree objects
MaxHolders == 3

\* the engine allocates at most MaxTrees trees
MaxTrees == 2

\* the caller's code_blocks sequence grows to at most MaxBlocks nodes
MaxBlocks == 3

(***************************************************************************)
(* Timer (common_util.h:109-148)                                           *)
(***************************************************************************)
\* static const suseconds_t kMicroSecs = 1000000;
kMicroSecs == 1000000

\* the microsecond components the clock is sampled at: the ends of the range,
\* both sides of a millisecond and of half a second
UsecSamples == {0, 1, 999, 1000, 499999, 500000, 999000, 999999}

\* struct timeval values gettimeofday can store
TimeVals == [tv_sec : 0..MaxSec, tv_usec : UsecSamples]

\* Timer has no constructor: start_tv_ and end_tv_ of a fresh Timer are
\* indeterminate; these are the values they are drawn from
IndeterminateTimeVals ==
    { [tv_sec |-> 0, tv_usec |-> 0],
      [tv_sec |-> 1, tv_usec |-> 999999],
      [tv_sec |-> -1, tv_usec |-> 1500000],
      [tv_sec |-> 2, tv_usec |-> -7] }

VARIABLES
    start_tv_,      \* Timer::start_tv_
    end_tv_,        \* Timer::end_tv_
    timer_op,       \* the Timer method that returned last ("new" after construction)
    timer_ret,      \* what it returned
    start_calls,    \* the number of StartTimer calls on this Timer
    stop_calls,     \* the number of StopTimer calls on this Timer
    start_reading,  \* the clock reading of the most recent StartTimer
    stop_reading    \* the clock reading of the most recent StopTimer

timer_vars == <<start_tv_, end_tv_, timer_op, timer_ret, start_calls, stop_calls,
                start_reading, stop_reading>>

\* C++ integer division truncates toward zero and % takes the sign of the dividend
CDiv(a, b) == IF a >= 0 THEN a \div b ELSE -((-a) \div b)

CRem(a, b) == a - b * CDiv(a, b)

\* auto timeval2microsec = [&](const struct timeval& tv) { ... }
timeval2microsec(tv) == tv.tv_sec * kMicroSecs + tv.tv_usec

\* mutant: the fields are subtracted one by one, with no borrow
TimerDiffFieldwise(start_tv, end_tv) ==
    [tv_sec |-> end_tv.tv_sec - start_tv.tv_sec,
     tv_usec |-> end_tv.tv_usec - start_tv.tv_usec]

\* mutant: a stop earlier than the start is clamped to a zero interval
TimerDiffClamped(start_tv, end_tv) ==
    LET diff_microsec == timeval2microsec(end_tv) - timeval2microsec(start_tv)
        clamped == IF diff_microsec < 0 THEN 0 ELSE diff_microsec
    IN  [tv_sec |-> CDiv(clamped, kMicroSecs), tv_usec |-> CRem(clamped, kMicroSecs)]

\* struct timeval Timer::TimerDiffToTimeval() const, as a function of the two
\* fields. time_t and suseconds_t are 64-bit long where the header is built
\* (LP64): the microsecond count of a clock reading is far below 2^63, so the
\* arithmetic is exact
TimerDiffToTimeval(start_tv, end_tv) ==
    LET diff_microsec == timeval2microsec(end_tv) - timeval2microsec(start_tv)
    IN  [tv_sec |-> CDiv(diff_microsec, kMicroSecs),
         tv_usec |-> CRem(diff_microsec, kMicroSecs)]

DigitChar == <<"0", "1", "2", "3", "4", "5", "6", "7", "8", "9">>

RECURSIVE NatToDecimal(_)
NatToDecimal(n) ==
    IF n < 10 THEN <<DigitChar[n + 1]>>
    ELSE NatToDecimal(n \div 10) \o <<DigitChar[(n % 10) + 1]>>

\* the characters std::ostream writes for a long in the default (decimal) format
IntToDecimal(n) == IF n < 0 THEN <<"-">> \o NatToDecimal(-n) ELSE NatToDecimal(n)

\* ostream << long under width w and fill character f: the default adjustment
\* is right, so the fill goes on the left; a longer number is not cut
StreamPutInt(buf, n, w, f) ==
    LET digits == IntToDecimal(n)
        pad == IF Len(digits) < w THEN [i \in 1..(w - Len(digits)) |-> f] ELSE <<>>
    IN  buf \o pad \o digits

\* mutant: the microseconds are rounded to the nearest millisecond
TimerDiffRounded(start_tv, end_tv) ==
    LET diff_tv == TimerDiffToTimeval(start_tv, end_tv)
        s1 == StreamPutInt(<<>>, diff_tv.tv_sec, 0, " ")
        s2 == s1 \o <<".">>
    IN  StreamPutInt(s2, CDiv(diff_tv.tv_usec + 500, 1000), 3, "0")

\* std::string Timer::TimerDiff() const, as a function of the two fields
TimerDiff(start_tv, end_tv) ==
    LET diff_tv == TimerDiffToTimeval(start_tv, end_tv)
        s1 == StreamPutInt(<<>>, diff_tv.tv_sec, 0, " ")
        s2 == s1 \o <<".">>
    IN  StreamPutInt(s2, CDiv(diff_tv.tv_usec, 1000), 3, "0")

\* mutant: StartTimer stores the reading in both timestamps
StartTimerClobber(now) ==
    /\ start_calls < MaxTimerCalls
    /\ start_tv_' = now
    /\ end_tv_' = now
    /\ timer_op' = "StartTimer"
    /\ timer_ret' = 0
    /\ start_calls' = start_calls + 1
    /\ start_reading' = now
    /\ UNCHANGED <<stop_calls, stop_reading>>

\* int Timer::StartTimer(): gettimeofday(&start_tv_, NULL) stores the clock
\* reading `now` and returns 0
StartTimer(now) ==
    /\ start_calls < MaxTimerCalls
    /\ start_tv_' = now
    /\ timer_op' = "StartTimer"
    /\ timer_ret' = 0
    /\ start_calls' = start_calls + 1
    /\ start_reading' = now
    /\ UNCHANGED <<end_tv_, stop_calls, stop_reading>>

\* int Timer::StopTimer()
StopTimer(now) ==
    /\ stop_calls < MaxTimerCalls
    /\ end_tv_' = now
    /\ timer_op' = "StopTimer"
    /\ timer_ret' = 0
    /\ stop_calls' = stop_calls + 1
    /\ stop_reading' = now
    /\ UNCHANGED <<start_tv_, start_calls, start_reading>>

\* a call of TimerDiffToTimeval() on the Timer
CallTimerDiffToTimeval ==
    /\ timer_op' = "TimerDiffToTimeval"
    /\ timer_ret' = TimerDiffToTimeval(start_tv_, end_tv_)
    /\ UNCHANGED <<start_tv_, end_tv_, start_calls, stop_calls, start_reading, stop_reading>>

\* a call of TimerDiff() on the Timer
CallTimerDiff ==
    /\ timer_op' = "TimerDiff"
    /\ timer_ret' = TimerDiff(start_tv_, end_tv_)
    /\ UNCHANGED <<start_tv_, end_tv_, start_calls, stop_calls, start_reading, stop_reading>>

(***************************************************************************)
(* Error taxonomy and guards (common_util.h:36-70)                         *)
(***************************************************************************)
\* the messages the guards are called with
Messages == {"", "null root", "bad kind: "}

\* the syntax nodes the guards are called with
Nodes == {"n_ident", "n_if", "n_error"}

\* char* ts_node_string(TSNode): the S-expression of the node, in a buffer the
\* engine allocates for the caller
ts_node_string(node) ==
    CASE node = "n_ident" -> "(identifier)"
      [] node = "n_if" -> "(if_statement condition: (identifier))"
      [] node = "n_error" -> "(ERROR (identifier))"

\* no exception left the call
NoException == [type |-> "none", what |-> ""]

\* cf_string_exception(message): what() returns the message
cf_string_exception(type, message) == [type |-> type, what |-> message]

\* cf_file_access_exception(error)
cf_file_access_exception(error) ==
    cf_string_exception("cf_file_access_exception", "File access failed: " \o error)

\* mutant: the expression is left out of the message
cf_parse_error_bare(expression) ==
    cf_string_exception("cf_parse_error", "Parse error in expression:")

\* cf_parse_error(expression)
cf_parse_error(expression) ==
    cf_string_exception("cf_parse_error", "Parse error in expression:" \o expression)

\* cf_unexpected_situation(error)
cf_unexpected_situation(error) ==
    cf_string_exception("cf_unexpected_situation", "Assert failed: " \o error)

\* mutant: the guard is compiled out of a release build, like assert()
cf_assert_ndebug(value, message, ndebug) ==
    IF ~ndebug /\ value = FALSE THEN cf_unexpected_situation(message) ELSE NoException

\* void cf_assert(bool value, const std::string& message): the exception that
\* leaves the call. ndebug (the build defines NDEBUG) is not read: the guard
\* is a function, not the assert macro
cf_assert(value, message, ndebug) ==
    IF value = FALSE THEN cf_unexpected_situation(message) ELSE NoException

\* mutant: the node's text is built only when the condition is false
cf_assert_node_lazy(value, message, node, ndebug) ==
    IF value
    THEN [strings |-> <<>>, freed |-> 0, thrown |-> NoException]
    ELSE [strings |-> <<node>>,
          freed |-> 0,
          thrown |-> cf_assert(value, message \o ts_node_string(node), ndebug)]

\* void cf_assert(bool value, const std::string& message, const TSNode& node):
\* the argument message + ts_node_string(node) is evaluated before the
\* two-argument guard is entered; the buffer ts_node_string returns is a
\* temporary char* that nothing frees.
\*   strings : the nodes ts_node_string was called on, in call order
\*   freed   : how many of the returned buffers were released
\*   thrown  : the exception that leaves the call
cf_assert_node(value, message, node, ndebug) ==
    [strings |-> <<node>>,
     freed |-> 0,
     thrown |-> cf_assert(value, message \o ts_node_string(node), ndebug)]

VARIABLES
    ndebug,             \* the build defines NDEBUG (a release build)
    assert_call,        \* the last guard call: its overload and arguments
    thrown,             \* the exception that left the last call of this layer
    assert_node_calls,  \* the number of three-argument guard calls so far
    ts_node_string_calls, \* the number of ts_node_string calls so far
    node_string_bufs    \* ts_node_string buffers allocated and not freed

assert_vars == <<ndebug, assert_call, thrown, assert_node_calls,
                 ts_node_string_calls, node_string_bufs>>

\* a call cf_assert(value, message)
CallCfAssert(value, message) ==
    /\ assert_call' = [overload |-> 2, value |-> value, message |-> message,
                       node |-> "none"]
    /\ thrown' = cf_assert(value, message, ndebug)
    /\ UNCHANGED <<ndebug, assert_node_calls, ts_node_string_calls, node_string_bufs>>

\* a call cf_assert(value, message, node)
CallCfAssertNode(value, message, node) ==
    LET r == cf_assert_node(value, message, node, ndebug)
    IN  /\ assert_node_calls < MaxAssertCalls
        /\ assert_call' = [overload |-> 3, value |-> value, message |-> message,
                           node |-> node]
        /\ thrown' = r.thrown
        /\ assert_node_calls' = assert_node_calls + 1
        /\ ts_node_string_calls' = ts_node_string_calls + Len(r.strings)
        /\ node_string_bufs' = node_string_bufs + Len(r.strings) - r.freed
        /\ UNCHANGED ndebug

AssertInit ==
    /\ ndebug \in BOOLEAN
    /\ assert_call = [overload |-> 0, value |-> TRUE, message |-> "", node |-> "none"]
    /\ thrown = NoException
    /\ assert_node_calls = 0
    /\ ts_node_string_calls = 0
    /\ node_string_bufs = 0

TimerInit ==
    /\ start_tv_ \in IndeterminateTimeVals
    /\ end_tv_ \in IndeterminateTimeVals
    /\ timer_op = "new"
    /\ timer_ret = 0
    /\ start_calls = 0
    /\ stop_calls = 0
    /\ start_reading = [tv_sec |-> 0, tv_usec |-> 0]
    /\ stop_reading = [tv_sec |-> 0, tv_usec |-> 0]

(***************************************************************************)
(* ManagedTSTree = std::unique_ptr<TSTree, TSTreeDeleter>                  *)
(* (common_util.h:79-85)                                                   *)
(*                                                                         *)
(* The holders are the ManagedTSTree objects of the calling code. A raw    *)
(* TSTree* reaches a holder from the engine's parse operation or from      *)
(* release(), the two places that hand the caller a pointer it owns; the   *)
(* non-owning pointer get() returns is never given to a second holder.     *)
(***************************************************************************)
Holders == 1..MaxHolders

\* the TSTree objects the engine can allocate
Trees == 1..MaxTrees

\* nullptr
NULL == 0

\* a holder that is not constructed, or whose destructor has run
Dead == -1

VARIABLES
    holder,          \* holder[h]: Dead, NULL or the tree the unique_ptr points to
    next_tree,       \* the next tree the engine allocates
    delete_calls,    \* delete_calls[p]: the ts_tree_delete(p) calls made, p may be NULL
    released,        \* the raw pointers release() returned, not yet given to a holder
    tree_op          \* the last holder operation: its name, holder and source holder,
                     \* and the pointers the two held before it

tree_vars == <<holder, next_tree, delete_calls, released, tree_op>>

\* TSTreeDeleter::operator()(TSTree* tree): ts_tree_delete(tree)
TSTreeDeleter(calls, tree) == [calls EXCEPT ![tree] = @ + 1]

\* mutant: the deleter is called on whatever the holder has, nullptr included
DeleteAlways(calls, p) == TSTreeDeleter(calls, p)

\* what unique_ptr does with the pointer p it gives up in reset(), in move
\* assignment and in its destructor: get_deleter()(p) if p is not null
DeleteIfOwned(calls, p) == IF p # NULL THEN TSTreeDeleter(calls, p) ELSE calls

\* mutant: a move copies the pointer and leaves the source as it was
KeptValue(p) == p

\* the pointer a moved-from or released unique_ptr is left with
ReleasedValue(p) == NULL

Op(name, h, src) ==
    [name |-> name, h |-> h, src |-> src, had |-> holder[h], src_had |-> holder[src]]

\* ManagedTSTree h;  (the default constructor: an empty holder)
ConstructEmpty(h) ==
    /\ holder[h] = Dead
    /\ holder' = [holder EXCEPT ![h] = NULL]
    /\ tree_op' = Op("construct_empty", h, h)
    /\ UNCHANGED <<next_tree, delete_calls, released>>

\* ManagedTSTree h(tree); with tree fresh from the engine's parse operation
ConstructFromParse(h) ==
    /\ holder[h] = Dead
    /\ next_tree <= MaxTrees
    /\ holder' = [holder EXCEPT ![h] = next_tree]
    /\ next_tree' = next_tree + 1
    /\ tree_op' = Op("construct", h, h)
    /\ UNCHANGED <<delete_calls, released>>

\* ManagedTSTree h(p); with p a pointer release() returned
ConstructFromReleased(h, p) ==
    /\ holder[h] = Dead
    /\ p \in released
    /\ holder' = [holder EXCEPT ![h] = p]
    /\ released' = released \ {p}
    /\ tree_op' = Op("construct", h, h)
    /\ UNCHANGED <<next_tree, delete_calls>>

\* ManagedTSTree h(std::move(src));  unique_ptr(unique_ptr&& u): takes u.release()
MoveConstruct(h, src) ==
    /\ holder[h] = Dead
    /\ holder[src] # Dead
    /\ holder' = [holder EXCEPT ![h] = holder[src], ![src] = ReleasedValue(holder[src])]
    /\ tree_op' = Op("move_construct", h, src)
    /\ UNCHANGED <<next_tree, delete_calls, released>>

\* h = std::move(src);  operator=(unique_ptr&& u): reset(u.release()), where
\* reset(p) stores p and then deletes the pointer held before. h = std::move(h)
\* releases and stores back the same pointer, and deletes nothing
MoveAssign(h, src) ==
    LET p == holder[src]
        emptied == [holder EXCEPT ![src] = ReleasedValue(p)]
        old == emptied[h]
    IN  /\ holder[h] # Dead
        /\ holder[src] # Dead
        /\ holder' = [emptied EXCEPT ![h] = p]
        /\ delete_calls' = DeleteIfOwned(delete_calls, old)
        /\ tree_op' = Op("move_assign", h, src)
        /\ UNCHANGED <<next_tree, released>>

\* h.reset();  reset(pointer p = pointer()): stores nullptr, deletes the old pointer
Reset(h) ==
    /\ holder[h] # Dead
    /\ holder' = [holder EXCEPT ![h] = NULL]
    /\ delete_calls' = DeleteIfOwned(delete_calls, holder[h])
    /\ tree_op' = Op("reset", h, h)
    /\ UNCHANGED <<next_tree, released>>

\* h.reset(p); with p a pointer release() returned: stores p, deletes the old pointer
ResetTo(h, p) ==
    /\ holder[h] # Dead
    /\ p \in released
    /\ holder' = [holder EXCEPT ![h] = p]
    /\ released' = released \ {p}
    /\ delete_calls' = DeleteIfOwned(delete_calls, holder[h])
    /\ tree_op' = Op("reset", h, h)
    /\ UNCHANGED next_tree

\* h.release();  gives the pointer to the caller and calls no deleter
Release(h) ==
    /\ holder[h] # Dead
    /\ holder' = [holder EXCEPT ![h] = ReleasedValue(holder[h])]
    /\ released' = released \cup ({holder[h]} \ {NULL})
    /\ tree_op' = Op("release", h, h)
    /\ UNCHANGED <<next_tree, delete_calls>>

\* h.swap(other);
Swap(h, other) ==
    /\ holder[h] # Dead
    /\ holder[other] # Dead
    /\ holder' = [holder EXCEPT ![h] = holder[other], ![other] = holder[h]]
    /\ tree_op' = Op("swap", h, other)
    /\ UNCHANGED <<next_tree, delete_calls, released>>

\* ~unique_ptr(): the holder goes out of scope
Destroy(h) ==
    /\ holder[h] # Dead
    /\ holder' = [holder EXCEPT ![h] = Dead]
    /\ delete_calls' = DeleteIfOwned(delete_calls, holder[h])
    /\ tree_op' = Op("destroy", h, h)
    /\ UNCHANGED <<next_tree, released>>

TreeInit ==
    /\ holder = [h \in Holders |-> Dead]
    /\ next_tree = 1
    /\ delete_calls = [p \in {NULL} \cup Trees |-> 0]
    /\ released = {}
    /\ tree_op = [name |-> "none", h |-> 1, src |-> 1, had |-> Dead, src_had |-> Dead]

(***************************************************************************)
(* Parser entry point and collector (declared at common_util.h:87-104;     *)
(* their definitions and parser.h are not part of the header, so the       *)
(* engine, GetTSTree and CollectCodeBlocksOfInterest follow spec.md 4.4,   *)
(* 4.5 and 6)                                                              *)
(***************************************************************************)
\* enum Language of parser.h: the grammar identifiers
Languages == {"LANGUAGE_C", "LANGUAGE_VERILOG"}

\* the source texts handed to the parser
Sources == {"if (a) b;", "if (a) { if (b) c; } d;", "a = ; if (b) c;"}

\* the kind the grammar gives an if statement
IfKind(L) == IF L = "LANGUAGE_C" THEN "if_statement" ELSE "conditional_statement"

\* a parsed tree: node 1 is the root, kind[n], text[n] and children[n] describe
\* node n. The node numbers are the engine's and follow no traversal order.
MakeTree(L, source, kind, text, children) ==
    [lang |-> L, source |-> source, kind |-> kind, text |-> text, children |-> children]

\* the engine's parse operation: it always returns a tree, and marks what it
\* could not parse with ERROR nodes
ts_parser_parse_string(L, source) ==
    CASE source = "if (a) b;" ->
           MakeTree(L, source,
                    <<"translation_unit", IfKind(L), "expression_statement",
                      "parenthesized_expression">>,
                    <<"if (a) b;", "if (a) b;", "b;", "(a)">>,
                    << <<2>>, <<4, 3>>, <<>>, <<>> >>)
      [] source = "if (a) { if (b) c; } d;" ->
           MakeTree(L, source,
                    <<"translation_unit", IfKind(L), "compound_statement",
                      "expression_statement", "parenthesized_expression", IfKind(L)>>,
                    <<"if (a) { if (b) c; } d;", "if (a) { if (b) c; }", "{ if (b) c; }",
                      "d;", "(a)", "if (b) c;">>,
                    << <<2, 4>>, <<5, 3>>, <<6>>, <<>>, <<>>, <<>> >>)
      [] source = "a = ; if (b) c;" ->
           MakeTree(L, source,
                    <<"translation_unit", IfKind(L), "ERROR">>,
                    <<"a = ; if (b) c;", "if (b) c;", "a = ;">>,
                    << <<3, 2>>, <<>>, <<>> >>)

\* no tree of the parse table has more nodes
MaxNodes == 6

\* an empty ManagedTSTree
NoTree == [lang |-> "none", source |-> "", kind |-> <<>>, text |-> <<>>, children |-> <<>>]

TreeNodes(tree) == 1..Len(tree.kind)

\* TSNode: a handle into a tree (the tree is named by its grammar and text);
\* a null node has id 0
Node(tree, n) == [lang |-> tree.lang, source |-> tree.source, id |-> n]

\* the nodes of the subtree rooted at n, in pre-order (a node, then its
\* children left to right)
RECURSIVE PreOrder(_, _)
RECURSIVE PreOrderAll(_, _)
PreOrder(tree, n) == <<n>> \o PreOrderAll(tree, tree.children[n])

PreOrderAll(tree, ns) ==
    IF ns = <<>> THEN <<>> ELSE PreOrder(tree, Head(ns)) \o PreOrderAll(tree, Tail(ns))

\* the grammar's interest predicate, a function of the node's kind
IsNodeOfInterest(G, kind) == kind = IfKind(G)

\* the error nodes of the tree in pre-order
ErrorNodes(tree) == SelectSeq(PreOrder(tree, 1), LAMBDA n : tree.kind[n] = "ERROR")

\* ManagedTSTree GetTSTree<L>(source_code, report_parse_errors):
\*   ret    : the tree returned, NoTree if the call throws
\*   thrown : the exception that leaves the call
GetTSTree(L, source_code, report_parse_errors) ==
    LET tree == ts_parser_parse_string(L, source_code)
        errors == ErrorNodes(tree)
    IN  IF report_parse_errors /\ errors # <<>>
        THEN [ret |-> NoTree, thrown |-> cf_parse_error(tree.text[Head(errors)])]
        ELSE [ret |-> tree, thrown |-> NoException]

\* mutant: the collector starts from an empty sequence
CollectCodeBlocksCleared(G, tree, root, code_blocks) ==
    LET found == SelectSeq(PreOrder(tree, root),
                           LAMBDA n : IsNodeOfInterest(G, tree.kind[n]))
    IN  IF root = 0
        THEN [blocks |-> code_blocks, thrown |-> cf_assert(FALSE, "null root", FALSE)]
        ELSE [blocks |-> [i \in 1..Len(found) |-> Node(tree, found[i])],
              thrown |-> NoException]

\* void CollectCodeBlocksOfInterest<G>(const TSNode& root_node, code_blocks_t&):
\*   blocks : code_blocks after the call
\*   thrown : the exception that leaves the call (a null root fails the guard)
CollectCodeBlocksOfInterest(G, tree, root, code_blocks) ==
    LET guard == cf_assert(root # 0, "null root", FALSE)
        found == SelectSeq(PreOrder(tree, root),
                           LAMBDA n : IsNodeOfInterest(G, tree.kind[n]))
    IN  IF guard # NoException
        THEN [blocks |-> code_blocks, thrown |-> guard]
        ELSE [blocks |-> code_blocks \o [i \in 1..Len(found) |-> Node(tree, found[i])],
              thrown |-> NoException]

VARIABLES
    cur_tree,       \* the ManagedTSTree of the calling code (NoTree: empty)
    code_blocks,    \* the caller's code_blocks_t
    an_call,        \* the last parser or collector call and its arguments
    get_ret         \* the tree the last call returned (NoTree: none; the
                    \* collectors return void)

analysis_vars == <<cur_tree, code_blocks, an_call, get_ret>>

AnCall(name, lang, source, flag, root) ==
    [name |-> name, lang |-> lang, source |-> source, flag |-> flag, root |-> root]

\* tree = GetTSTree<L>(source_code, report_parse_errors); when the call throws,
\* the assignment does not happen
CallGetTSTree(L, source_code, report_parse_errors) ==
    LET r == GetTSTree(L, source_code, report_parse_errors)
    IN  /\ an_call' = AnCall("GetTSTree", L, source_code, report_parse_errors, 0)
        /\ get_ret' = r.ret
        /\ thrown' = r.thrown
        /\ cur_tree' = IF r.thrown = NoException THEN r.ret ELSE cur_tree
        /\ UNCHANGED code_blocks

\* CollectCodeBlocksOfInterest<G>(root_node, code_blocks) on a node of the
\* caller's tree (root = 0: a null node)
CallCollectNode(G, root) ==
    LET r == CollectCodeBlocksOfInterest(G, cur_tree, root, code_blocks)
    IN  /\ root \in {0} \cup TreeNodes(cur_tree)
        /\ Len(r.blocks) <= MaxBlocks
        /\ an_call' = AnCall("CollectNode", G, "", FALSE, root)
        /\ code_blocks' = r.blocks
        /\ thrown' = r.thrown
        /\ get_ret' = NoTree
        /\ UNCHANGED cur_tree

\* CollectCodeBlocksOfInterest<G>(tree, code_blocks): the root node of the
\* tree (a null node if the holder is empty), then the overload above
CallCollectTree(G) ==
    LET root == IF cur_tree = NoTree THEN 0 ELSE 1
        r == CollectCodeBlocksOfInterest(G, cur_tree, root, code_blocks)
    IN  /\ Len(r.blocks) <= MaxBlocks
        /\ an_call' = AnCall("CollectTree", G, "", FALSE, root)
        /\ code_blocks' = r.blocks
        /\ thrown' = r.thrown
        /\ get_ret' = NoTree
        /\ UNCHANGED cur_tree

AnalysisInit ==
    /\ cur_tree = NoTree
    /\ code_blocks = <<>>
    /\ an_call = AnCall("none", "none", "", FALSE, 0)
    /\ get_ret = NoTree

(***************************************************************************)
(* Specifications: one per component, over the whole state                 *)
(***************************************************************************)
vars == <<timer_vars, assert_vars, tree_vars, analysis_vars>>

\* a component the specification does not exercise stays in one initial state
TimerIdle ==
    /\ TimerInit
    /\ start_tv_ = [tv_sec |-> 0, tv_usec |-> 0]
    /\ end_tv_ = [tv_sec |-> 0, tv_usec |-> 0]

AssertIdle == AssertInit /\ ndebug = FALSE

TimerNext ==
    \/ \E now \in TimeVals : StartTimer(now) /\ UNCHANGED <<assert_vars, tree_vars, analysis_vars>>
    \/ \E now \in TimeVals : StopTimer(now) /\ UNCHANGED <<assert_vars, tree_vars, analysis_vars>>
    \/ CallTimerDiffToTimeval /\ UNCHANGED <<assert_vars, tree_vars, analysis_vars>>
    \/ CallTimerDiff /\ UNCHANGED <<assert_vars, tree_vars, analysis_vars>>

TimerSpecInit == TimerInit /\ AssertIdle /\ TreeInit /\ AnalysisInit

TimerSpec == TimerSpecInit /\ [][TimerNext]_vars

AssertNext ==
    \/ \E value \in BOOLEAN, message \in Messages :
          CallCfAssert(value, message) /\ UNCHANGED <<timer_vars, tree_vars, analysis_vars>>
    \/ \E value \in BOOLEAN, message \in Messages, node \in Nodes :
          CallCfAssertNode(value, message, node) /\ UNCHANGED <<timer_vars, tree_vars, analysis_vars>>

AssertSpecInit == TimerIdle /\ AssertInit /\ TreeInit /\ AnalysisInit

AssertSpec == AssertSpecInit /\ [][AssertNext]_vars

TreeNext ==
    \/ \E h \in Holders : ConstructEmpty(h) /\ UNCHANGED <<timer_vars, assert_vars, analysis_vars>>
    \/ \E h \in Holders : ConstructFromParse(h) /\ UNCHANGED <<timer_vars, assert_vars, analysis_vars>>
    \/ \E h \in Holders, p \in Trees :
          ConstructFromReleased(h, p) /\ UNCHANGED <<timer_vars, assert_vars, analysis_vars>>
    \/ \E h, src \in Holders : MoveConstruct(h, src) /\ UNCHANGED <<timer_vars, assert_vars, analysis_vars>>
    \/ \E h, src \in Holders : MoveAssign(h, src) /\ UNCHANGED <<timer_vars, assert_vars, analysis_vars>>
    \/ \E h \in Holders : Reset(h) /\ UNCHANGED <<timer_vars, assert_vars, analysis_vars>>
    \/ \E h \in Holders, p \in Trees :
          ResetTo(h, p) /\ UNCHANGED <<timer_vars, assert_vars, analysis_vars>>
    \/ \E h \in Holders : Release(h) /\ UNCHANGED <<timer_vars, assert_vars, analysis_vars>>
    \/ \E h, other \in Holders : Swap(h, other) /\ UNCHANGED <<timer_vars, assert_vars, analysis_vars>>
    \/ \E h \in Holders : Destroy(h) /\ UNCHANGED <<timer_vars, assert_vars, analysis_vars>>

TreeSpecInit == TimerIdle /\ AssertIdle /\ TreeInit /\ AnalysisInit

TreeSpec == TreeSpecInit /\ [][TreeNext]_vars

\* the parser and the collector set thrown and leave the guards' counters alone
AnalysisFrame ==
    UNCHANGED <<timer_vars, tree_vars, ndebug, assert_call, assert_node_calls,
                ts_node_string_calls, node_string_bufs>>

AnalysisNext ==
    \/ \E L \in Languages, source \in Sources, report \in BOOLEAN :
          CallGetTSTree(L, source, report) /\ AnalysisFrame
    \/ \E G \in Languages, root \in 0..MaxNodes : CallCollectNode(G, root) /\ AnalysisFrame
    \/ \E G \in Languages : CallCollectTree(G) /\ AnalysisFrame

AnalysisSpecInit == TimerIdle /\ AssertIdle /\ TreeInit /\ AnalysisInit

AnalysisSpec == AnalysisSpecInit /\ [][AnalysisNext]_vars

(***************************************************************************)
(* Properties                                                              *)
(***************************************************************************)
LiveOwners(t) == {h \in Holders : holder[h] = t}

Handed(t) == t < next_tree

\* C1 as stated: every tree handed to a holder that no live holder owns any
\* more has had ts_tree_delete called on it exactly once.
C1_DeletedExactlyOnce ==
    \A t \in Trees : (Handed(t) /\ LiveOwners(t) = {}) => delete_calls[t] = 1

\* C1, amended: ts_tree_delete is never called by an empty holder (never on
\* nullptr), never on a tree not handed to a holder, and at most once on any
\* tree; a tree handed to a holder has been deleted exactly once exactly when
\* no live holder owns it and release() has not handed it back to the caller.
C1_DeletedOnceUnlessReleased ==
    /\ delete_calls[NULL] = 0
    /\ \A t \in Trees :
         /\ delete_calls[t] <= 1
         /\ ~Handed(t) => delete_calls[t] = 0
         /\ Handed(t) => (delete_calls[t] = 1 <=> (LiveOwners(t) = {} /\ t \notin released))

\* an emptied (moved-from) holder is destroyed after its tree was deleted
\* through the holder it was moved to, and a released tree is still undeleted
C1_Witness ==
    /\ tree_op.name = "destroy"
    /\ tree_op.had = NULL
    /\ delete_calls[1] = 1
    /\ released = {2}
    /\ delete_calls[2] = 0

\* C2: at most one live holder owns any tree, and a move construction or
\* move assignment from another holder leaves the source empty and the
\* destination with the source's tree.
C2_SingleOwner ==
    /\ \A t \in Trees : Cardinality(LiveOwners(t)) <= 1
    /\ \A t \in Trees : ~(LiveOwners(t) # {} /\ t \in released)
    /\ (tree_op.name \in {"move_construct", "move_assign"} /\ tree_op.h # tree_op.src)
         => /\ holder[tree_op.src] = NULL
            /\ holder[tree_op.h] = tree_op.src_had

\* a move assignment hands a tree to a holder that owned another one
C2_Witness ==
    /\ tree_op.name = "move_assign"
    /\ tree_op.h # tree_op.src
    /\ tree_op.had \in Trees
    /\ tree_op.src_had \in Trees
    /\ holder[tree_op.h] = tree_op.src_had
    /\ holder[tree_op.src] = NULL

\* the message the guard's exception carries for the recorded call
AssertWhat(call) ==
    "Assert failed: " \o call.message \o
        (IF call.overload = 3 THEN ts_node_string(call.node) ELSE "")

\* C3: a guard call throws if and only if its condition is false, what it
\* throws is cf_unexpected_situation with "Assert failed: ", the message and
\* (three-argument overload) the node's text, and this is so in every build.
C3_GuardThrowsIffFalse ==
    assert_call.overload \in {2, 3} =>
        /\ (thrown # NoException) <=> (assert_call.value = FALSE)
        /\ assert_call.value = FALSE =>
             thrown = [type |-> "cf_unexpected_situation", what |-> AssertWhat(assert_call)]

\* a false condition with a node fails the guard in a release build
C3_Witness ==
    /\ ndebug
    /\ assert_call.overload = 3
    /\ assert_call.value = FALSE
    /\ assert_call.node = "n_error"
    /\ thrown.what = "Assert failed: bad kind: (ERROR (identifier))"

\* both timestamps were recorded by the clock
Recorded == start_calls > 0 /\ stop_calls > 0

\* the stop timestamp is not earlier than the start timestamp
StopNotEarlier ==
    \/ end_tv_.tv_sec > start_tv_.tv_sec
    \/ end_tv_.tv_sec = start_tv_.tv_sec /\ end_tv_.tv_usec >= start_tv_.tv_usec

\* the difference of the two timestamps in microseconds
ElapsedMicros ==
    (end_tv_.tv_sec - start_tv_.tv_sec) * 1000000 + (end_tv_.tv_usec - start_tv_.tv_usec)

\* C4: for recorded timestamps with stop not earlier than start,
\* TimerDiffToTimeval returns (sec, usec) with sec >= 0, 0 <= usec < 1000000
\* and sec * 1000000 + usec the difference in microseconds.
C4_DiffNormalized ==
    (timer_op = "TimerDiffToTimeval" /\ Recorded /\ StopNotEarlier) =>
        /\ timer_ret.tv_sec >= 0
        /\ timer_ret.tv_usec >= 0
        /\ timer_ret.tv_usec < 1000000
        /\ timer_ret.tv_sec * 1000000 + timer_ret.tv_usec = ElapsedMicros

\* the borrow: stop's microseconds are smaller than start's
C4_Witness ==
    /\ timer_op = "TimerDiffToTimeval"
    /\ Recorded
    /\ end_tv_.tv_sec = start_tv_.tv_sec + 2
    /\ end_tv_.tv_usec < start_tv_.tv_usec
    /\ timer_ret = [tv_sec |-> 1, tv_usec |-> 1]

DigitValue(c) == CHOOSE d \in 0..9 : DigitChar[d + 1] = c

IsDigit(c) == \E d \in 0..9 : DigitChar[d + 1] = c

\* the number a sequence of decimal digits reads as
RECURSIVE ParseNat(_)
ParseNat(cs) ==
    IF cs = <<>> THEN 0
    ELSE 10 * ParseNat(SubSeq(cs, 1, Len(cs) - 1)) + DigitValue(cs[Len(cs)])

\* C5: for a non-negative interval of d microseconds TimerDiff returns the
\* decimal digits of floor(d / 1000000) (no sign, no leading zero), a '.' and
\* exactly three digits that read floor((d mod 1000000) / 1000); 1500000
\* microseconds give "1.500".
C5_FormattedDiff ==
    (timer_op = "TimerDiff" /\ Recorded /\ StopNotEarlier) =>
        LET s == timer_ret
            n == Len(s)
            whole == SubSeq(s, 1, n - 4)
            millis == SubSeq(s, n - 2, n)
        IN  /\ n >= 5
            /\ s[n - 3] = "."
            /\ \A i \in 1..n : i # n - 3 => IsDigit(s[i])
            /\ (Len(whole) > 1 => whole[1] # "0")
            /\ ParseNat(whole) = ElapsedMicros \div 1000000
            /\ ParseNat(millis) = (ElapsedMicros % 1000000) \div 1000
            /\ (ElapsedMicros = 1500000 => s = <<"1", ".", "5", "0", "0">>)

\* 1500000 microseconds elapsed, and an interval whose milliseconds need padding
C5_Witness ==
    /\ timer_op = "TimerDiff"
    /\ Recorded
    /\ ElapsedMicros = 1500000
    /\ timer_ret = <<"1", ".", "5", "0", "0">>

\* C8: for recorded timestamps with stop earlier than start,
\* TimerDiffToTimeval returns normally a negative interval: neither component
\* is positive, one is negative, and sec * 1000000 + usec is the (negative)
\* difference; nothing is clamped to zero.
C8_NegativeInterval ==
    (timer_op = "TimerDiffToTimeval" /\ Recorded /\ ~StopNotEarlier) =>
        /\ timer_ret.tv_sec <= 0
        /\ timer_ret.tv_usec <= 0
        /\ timer_ret.tv_usec > -1000000
        /\ (timer_ret.tv_sec < 0 \/ timer_ret.tv_usec < 0)
        /\ timer_ret.tv_sec * 1000000 + timer_ret.tv_usec = ElapsedMicros

\* the clock went back by a second and a half between StartTimer and StopTimer
C8_Witness ==
    /\ timer_op = "TimerDiffToTimeval"
    /\ Recorded
    /\ start_tv_ = [tv_sec |-> 2, tv_usec |-> 0]
    /\ end_tv_ = [tv_sec |-> 0, tv_usec |-> 500000]
    /\ timer_ret = [tv_sec |-> -1, tv_usec |-> -500000]

\* the microseconds of a clock reading
Micros(tv) == tv.tv_sec * 1000000 + tv.tv_usec

\* C9: StartTimer writes only start_tv_ and StopTimer only end_tv_, the two
\* diff methods write neither; so once both were called a diff reports the
\* most recent StopTimer reading minus the most recent StartTimer reading,
\* and a diff repeated with no start or stop in between returns the same.
C9_TimerFrame ==
    [][ /\ (timer_op' = "StartTimer" => (start_tv_' = start_reading' /\ end_tv_' = end_tv_))
        /\ (timer_op' = "StopTimer" => (end_tv_' = stop_reading' /\ start_tv_' = start_tv_))
        /\ (timer_op' \in {"TimerDiffToTimeval", "TimerDiff"} =>
              (start_tv_' = start_tv_ /\ end_tv_' = end_tv_))
        /\ ((timer_op' = "TimerDiffToTimeval" /\ Recorded) =>
              timer_ret'.tv_sec * 1000000 + timer_ret'.tv_usec
                  = Micros(stop_reading) - Micros(start_reading))
        /\ ((timer_op' = timer_op /\ timer_op \in {"TimerDiffToTimeval", "TimerDiff"}) =>
              timer_ret' = timer_ret)
      ]_vars

\* a diff after the timer was started twice and stopped twice with four
\* different readings
C9_Witness ==
    /\ timer_op = "TimerDiffToTimeval"
    /\ start_calls = 2
    /\ stop_calls = 2
    /\ start_reading = [tv_sec |-> 1, tv_usec |-> 999]
    /\ stop_reading = [tv_sec |-> 2, tv_usec |-> 1000]
    /\ timer_ret = [tv_sec |-> 1, tv_usec |-> 1]

\* C10: every three-argument guard call calls ts_node_string, whether or not
\* the condition holds, and no buffer ts_node_string returned is ever freed.
C10_NodeStringEveryCall ==
    /\ ts_node_string_calls = assert_node_calls
    /\ node_string_bufs = ts_node_string_calls

\* a three-argument guard call whose condition holds, after an earlier one
C10_Witness ==
    /\ assert_call.overload = 3
    /\ assert_call.value = TRUE
    /\ thrown = NoException
    /\ assert_node_calls = 2
    /\ ts_node_string_calls = 2
    /\ node_string_bufs = 2

\* the nodes of the tree with an ERROR kind
ErrorNodeSet(tree) == {n \in TreeNodes(tree) : tree.kind[n] = "ERROR"}

RECURSIVE IsInSubtree(_, _, _)
IsInSubtree(tree, a, n) ==
    \/ a = n
    \/ \E i \in 1..Len(tree.children[a]) : IsInSubtree(tree, tree.children[a][i], n)

\* node a comes before node b in the traversal: a is a proper ancestor of b, or
\* a lies under an earlier child than b of some node
Precedes(tree, a, b) ==
    /\ a # b
    /\ \/ IsInSubtree(tree, a, b)
       \/ \E c \in TreeNodes(tree) :
            \E i, j \in 1..Len(tree.children[c]) :
               /\ i < j
               /\ IsInSubtree(tree, tree.children[c][i], a)
               /\ IsInSubtree(tree, tree.children[c][j], b)

\* C7: a collector call leaves the tree as it was and the sequence's old
\* contents as a prefix of the new ones; the appended suffix holds each node
\* of the traversed subtree that satisfies the grammar's interest predicate
\* once, in traversal order.
C7_CollectorAppendsOnly ==
    [][ an_call'.name \in {"CollectNode", "CollectTree"} =>
          LET old == Len(code_blocks)
              new == Len(code_blocks')
              root == an_call'.root
              wanted == IF root = 0 THEN {}
                        ELSE {n \in TreeNodes(cur_tree) :
                                /\ IsInSubtree(cur_tree, root, n)
                                /\ IsNodeOfInterest(an_call'.lang, cur_tree.kind[n])}
          IN  /\ cur_tree' = cur_tree
              /\ new >= old
              /\ SubSeq(code_blocks', 1, old) = code_blocks
              /\ new - old = Cardinality(wanted)
              /\ {code_blocks'[i].id : i \in (old + 1)..new} = wanted
              /\ \A i \in (old + 1)..new :
                   /\ code_blocks'[i].lang = cur_tree.lang
                   /\ code_blocks'[i].source = cur_tree.source
              /\ \A i, j \in (old + 1)..new :
                   i < j => Precedes(cur_tree, code_blocks'[i].id, code_blocks'[j].id)
      ]_vars

\* the nodes of interest of a second tree are appended after those of a first
C7_Witness ==
    /\ an_call.name = "CollectTree"
    /\ Len(code_blocks) = 3
    /\ code_blocks[1].source = "if (a) b;"
    /\ code_blocks[2] = [lang |-> "LANGUAGE_C", source |-> "if (a) { if (b) c; } d;", id |-> 2]
    /\ code_blocks[3] = [lang |-> "LANGUAGE_C", source |-> "if (a) { if (b) c; } d;", id |-> 6]
    /\ cur_tree.source = "if (a) { if (b) c; } d;"
====
